---- MODULE Spec2Model ----
(***************************************************************************)
(* BetaBriteWriter.py: the display window, the NWS / NHC alert polling     *)
(* schedule, the forecast sender and the coordinating loop of main().      *)
(*                                                                         *)
(* Instants are whole seconds counted from 00:00:00 of day 0 (a naive      *)
(* local datetime).  A time of day is the number of seconds since          *)
(* midnight.  An Optional value is a sequence of length 0 (None) or 1.     *)
(* A settings time string "HH:MM" is the pair <<HH, MM>> of its fields.    *)
(***************************************************************************)
EXTENDS Integers, Sequences, FiniteSets, TLC

VARIABLES
    pc,              \* where main() is: "menu", "headless", "running", "stopped", "exited", "crashed", "probe", "probed"
    settings,        \* the settings dict (ON_TIME, OFF_TIME)
    now,             \* main(): the local variable now
    state,           \* the module-level ThreadSafeState instance
    next_nws_check,  \* main(): the local variable next_nws_check
    sign,            \* the message the sign shows: the last packet written to the serial port
    ser_open,        \* BetaBrite.ser is set and open
    ticks,           \* iterations of the coordinating loop so far
    ev,              \* what the last step did (polls, sends, schedule decisions)
    ret,             \* the value returned by a probed function
    frame            \* the arguments and local variables of a probed call

vars == <<pc, settings, now, state, next_nws_check, sign, ser_open, ticks, ev, ret,
          frame>>

----------------------------------------------------------------------------
(* Bounds of the model *)

MaxTicks == 3

\* seconds between two successive readings of now by the loop: the sleep of
\* one second plus the time the iteration's polls and sends took
Deltas == {1, 60, 120, 180}

----------------------------------------------------------------------------
(* Values *)

None == <<>>
Some(x) == <<x>>

Hour == 60 * 60
Day == 24 * Hour

At(d, h, m, s) == d * Day + h * Hour + m * 60 + s

hour(t) == (t \div Hour) % 24
minute(t) == (t \div 60) % 60
second(t) == t % 60
date(t) == t \div Day
time(t) == t % Day

\* datetime.replace(minute=m, second=0, microsecond=0)
replace_minute(t, m) == t - (t % Hour) + m * 60

\* datetime.min, the initial last_nws_pull / last_nhc_pull
DatetimeMin == 0

SCHEDULED_HOURS == <<0, 3, 6, 9, 12, 15, 18, 21>>
NWS_SCHEDULED_MINUTES == <<0, 5, 10, 15, 20, 25, 30, 35, 40, 45, 50, 55>>
NHC_SCHEDULED_HOURS == <<5, 11, 17, 23>>

Range(seq) == {seq[i] : i \in 1..Len(seq)}

\* the index of the first TRUE of a sequence of tests, 0 when there is none
\* (a for loop that returns at its first match)
FirstIndex(tests) ==
    LET hits == {i \in 1..Len(tests) : tests[i]}
    IN IF hits = {} THEN 0 ELSE CHOOSE i \in hits : \A j \in hits : i <= j

----------------------------------------------------------------------------
(* Settings *)

DEFAULT_SETTINGS == [ON_TIME |-> <<6, 0>>, OFF_TIME |-> <<22, 0>>]

\* Validator.time_format: strptime(timestr, "%H:%M") succeeds
time_format(timestr) == timestr[1] \in 0..23 /\ timestr[2] \in 0..59

\* datetime.strptime(timestr, "%H:%M").time()
strptime(timestr) == timestr[1] * Hour + timestr[2] * 60

\* the ON_TIME / OFF_TIME pairs an operator types at the menu or a settings
\* file holds: a day window, an overnight window, equal times, a bad format
OnOffInputs ==
    {<<<<6, 0>>, <<22, 0>>>>, <<<<22, 0>>, <<6, 0>>>>, <<<<6, 0>>, <<6, 0>>>>,
     <<<<6, 0>>, <<24, 0>>>>}

\* Settings.load(): the defaults, or whatever ON_TIME / OFF_TIME the file holds
Settings_load ==
    {DEFAULT_SETTINGS} \cup {[ON_TIME |-> p[1], OFF_TIME |-> p[2]] : p \in OnOffInputs}

\* validate_headless_settings: the fixed ON / OFF times of a headless start
HeadlessSettings == [ON_TIME |-> <<6, 0>>, OFF_TIME |-> <<22, 0>>]

----------------------------------------------------------------------------
(* Time management *)

\* is_display_active with the OFF time included in a day window
is_display_active_inclusive(s, t) ==
    LET current_time == time(t)
        on_time == strptime(s.ON_TIME)
        off_time == strptime(s.OFF_TIME)
    IN IF on_time < off_time
       THEN on_time <= current_time /\ current_time <= off_time
       ELSE current_time >= on_time \/ current_time < off_time

\* is_display_active with "and" for "or" in the overnight window
is_display_active_overnight_and(s, t) ==
    LET current_time == time(t)
        on_time == strptime(s.ON_TIME)
        off_time == strptime(s.OFF_TIME)
    IN IF on_time < off_time
       THEN on_time <= current_time /\ current_time < off_time
       ELSE current_time >= on_time /\ current_time < off_time

is_display_active(s, t) ==
    LET current_time == time(t)
        on_time == strptime(s.ON_TIME)
        off_time == strptime(s.OFF_TIME)
    IN IF on_time < off_time
       THEN on_time <= current_time /\ current_time < off_time
       ELSE current_time >= on_time \/ current_time < off_time

\* get_next_nws_check taking the mark of the current minute when it is one
get_next_nws_check_at_or_after(t, alert_active) ==
    IF alert_active
    THEN t + 2 * 60
    ELSE LET i == FirstIndex([k \in 1..Len(NWS_SCHEDULED_MINUTES) |->
                                 minute(t) <= NWS_SCHEDULED_MINUTES[k]])
         IN IF i # 0
            THEN replace_minute(t, NWS_SCHEDULED_MINUTES[i])
            ELSE replace_minute(t, 0) + Hour

get_next_nws_check(t, alert_active) ==
    IF alert_active
    THEN t + 2 * 60
    ELSE LET i == FirstIndex([k \in 1..Len(NWS_SCHEDULED_MINUTES) |->
                                 minute(t) < NWS_SCHEDULED_MINUTES[k]])
         IN IF i # 0
            THEN replace_minute(t, NWS_SCHEDULED_MINUTES[i])
            ELSE replace_minute(t, 0) + Hour

\* get_nearest_5min_mark keeping the two-minute cadence of an active alert
get_nearest_5min_mark_two_minutes(t) == t + 2 * 60

get_nearest_5min_mark(t) ==
    LET i == FirstIndex([k \in 1..Len(NWS_SCHEDULED_MINUTES) |->
                            minute(t) <= NWS_SCHEDULED_MINUTES[k]])
    IN IF i # 0
       THEN replace_minute(t, NWS_SCHEDULED_MINUTES[i])
       ELSE replace_minute(t, 0) + Hour

\* should_check_nhc without the test that this hour was already checked
should_check_nhc_every_tick(t, last_check) ==
    hour(t) \in Range(NHC_SCHEDULED_HOURS) /\ minute(t) < 5

should_check_nhc(t, last_check) ==
    IF hour(t) \notin Range(NHC_SCHEDULED_HOURS) THEN FALSE
    ELSE IF minute(t) >= 5 THEN FALSE
    ELSE IF hour(last_check) = hour(t) /\ date(last_check) = date(t) THEN FALSE
    ELSE TRUE

----------------------------------------------------------------------------
(* The world an operation acts on: the session state, the sign, the log of  *)
(* the step.  Operations take a world and return the world they leave.      *)

InitialState ==
    [last_forecast_update |-> None,
     last_alert_id |-> None,
     last_nws_pull |-> DatetimeMin,
     last_nhc_pull |-> DatetimeMin,
     nhc_active_names |-> <<>>,
     nws_active_headlines |-> <<>>,
     display_was_active |-> None,
     last_forecast_hour |-> None,
     shutdown |-> FALSE]

NoEvent(branch) ==
    [branch |-> branch,      \* the branch of main() the step took
     scheduled |-> FALSE,    \* the scheduled forecast refresh fired
     nws |-> "none",         \* NWS poll of this step: none, fail (HTTP), error (payload), ok
     feed |-> None,          \* the number of alert entries a successful NWS poll read
     loop_poll |-> FALSE,    \* the NWS poll was the loop's own (lines 1054-1076)
     expired |-> FALSE,      \* next_nws_check came from get_nearest_5min_mark
     nhc |-> "none",         \* NHC poll of this step: none, fail, ok
     nhc_sched |-> FALSE,    \* the NHC poll was the loop's own (lines 1078-1083)
     txfail |-> FALSE,       \* a send_message of the step gave up on its writes
     port |-> "open",        \* line 1086: "lost" when the port was closed and not reopened
     fc |-> <<>>,            \* send_forecast calls: skipped, raised, sent, unsent
     tx |-> <<>>,            \* the messages written to the serial port
     prev_update |-> None,   \* last_forecast_update before the step
     refreshed |-> <<>>]     \* the instants of the scheduled refreshes so far

World(branch) ==
    [state |-> state,
     sign |-> sign,
     ev |-> [NoEvent(branch) EXCEPT !.prev_update = state.last_forecast_update,
                                    !.refreshed = ev.refreshed]]

BlankMessage == [kind |-> "blank", nhc |-> <<>>, nws |-> <<>>]
ExitMessage == [kind |-> "exit", nhc |-> <<>>, nws |-> <<>>]
NoMessage == [kind |-> "unknown", nhc |-> <<>>, nws |-> <<>>]
ForecastMessage(s) ==
    [kind |-> "forecast", nhc |-> s.nhc_active_names, nws |-> s.nws_active_headlines]

----------------------------------------------------------------------------
(* The environment: what the feeds, the forecast API and the serial port do *)

Alert1 == [id |-> "A1", headline |-> Some("H1")]

\* requests.get + raise_for_status on the NWS feed: ok is FALSE on an HTTP
\* error, a timeout or a non-2xx status
NWSResponses ==
    {[ok |-> FALSE, features |-> <<>>],
     [ok |-> TRUE, features |-> <<>>],
     [ok |-> TRUE, features |-> <<Alert1>>]}

Hurricane == [name |-> Some("IAN"), classification |-> "HU", basin |-> "al"]
TropicalStorm == [name |-> Some("TS1"), classification |-> "TS", basin |-> "AL"]

NHCResponses ==
    {[ok |-> FALSE, activeStorms |-> <<>>],
     [ok |-> TRUE, activeStorms |-> <<>>],
     [ok |-> TRUE, activeStorms |-> <<TropicalStorm, Hurricane>>]}

\* get_forecast_data / parse_forecast return, or raise
ApiOutcomes == {"ok", "raise"}
\* the serial write succeeds, or keeps failing until send_message gives up
SerialOutcomes == {"ok", "fail"}

upper(b) == IF b = "al" THEN "AL" ELSE b

Pick(S, used) == IF used THEN S ELSE {CHOOSE x \in S : TRUE}

----------------------------------------------------------------------------
(* BetaBrite *)

\* send_message whose failed write also asks for the shutdown
send_message_fatal(w, open, text, outcome) ==
    IF ~open THEN w
    ELSE IF outcome = "ok"
         THEN [w EXCEPT !.sign = text, !.ev.tx = Append(@, text)]
         ELSE [w EXCEPT !.ev.txfail = TRUE, !.state.shutdown = TRUE]

send_message(w, open, text, outcome) ==
    IF ~open THEN w
    ELSE IF outcome = "ok"
         THEN [w EXCEPT !.sign = text, !.ev.tx = Append(@, text)]
         ELSE [w EXCEPT !.ev.txfail = TRUE]

\* clear_display writing the forecast of the session state instead of the blank
clear_display_keeps_forecast(w, open, outcome) ==
    send_message(w, open, ForecastMessage(w.state), outcome)

clear_display(w, open, outcome) == send_message(w, open, BlankMessage, outcome)

----------------------------------------------------------------------------
(* Alerts *)

\* check_alerts clearing the cached alert when the request fails
check_alerts_clear_on_failure(w, resp, t) ==
    LET alerts == resp.features
    IN [w EXCEPT !.state.last_nws_pull = t,
                 !.state.last_alert_id =
                     IF resp.ok /\ alerts # <<>> THEN Some(alerts[1].id) ELSE None,
                 !.state.nws_active_headlines =
                     IF resp.ok /\ alerts # <<>> THEN <<alerts[1].headline[1]>> ELSE <<>>,
                 !.ev.nws = IF resp.ok THEN "ok" ELSE "fail"]

\* check_alerts leaving the alert id in place when the feed comes back empty
check_alerts_keep_on_empty(w, resp, t) ==
    LET w1 == [w EXCEPT !.state.last_nws_pull = t]
    IN IF ~resp.ok
       THEN [w1 EXCEPT !.ev.nws = "fail"]
       ELSE IF resp.features # <<>>
            THEN [w1 EXCEPT !.state.last_alert_id = Some(resp.features[1].id),
                            !.state.nws_active_headlines =
                                <<resp.features[1].headline[1]>>,
                            !.ev.nws = "ok",
                            !.ev.feed = Some(Len(resp.features))]
            ELSE [w1 EXCEPT !.state.nws_active_headlines = <<>>,
                            !.ev.nws = "ok",
                            !.ev.feed = Some(0)]

check_alerts(w, resp, t) ==
    LET w1 == [w EXCEPT !.state.last_nws_pull = t]
        alerts == resp.features
        has_headline(a) == a.headline # None
        with_headline == SelectSeq(alerts, has_headline)
        headlines == [i \in 1..Len(with_headline) |-> with_headline[i].headline[1]]
    IN IF ~resp.ok
       THEN [w1 EXCEPT !.ev.nws = "fail"]
       ELSE IF alerts # <<>>
            THEN LET latest == alerts[1].id
                     w2 == [w1 EXCEPT !.state.nws_active_headlines = headlines,
                                      !.ev.feed = Some(Len(alerts))]
                 IN IF Some(latest) # w2.state.last_alert_id
                    THEN [w2 EXCEPT !.state.last_alert_id = Some(latest),
                                    \* headlines[0] raises IndexError on an empty list
                                    !.ev.nws = IF headlines = <<>> THEN "error" ELSE "ok"]
                    ELSE [w2 EXCEPT !.ev.nws = "ok"]
            ELSE [w1 EXCEPT !.state.last_alert_id = None,
                            !.state.nws_active_headlines = <<>>,
                            !.ev.nws = "ok",
                            !.ev.feed = Some(0)]

check_storms(w, resp, t) ==
    LET w1 == [w EXCEPT !.state.last_nhc_pull = t]
        is_hurricane(s) == s.classification = "HU" /\ upper(s.basin) = "AL"
        hurricanes == SelectSeq(resp.activeStorms, is_hurricane)
        has_name(h) == h.name # None
        named == SelectSeq(hurricanes, has_name)
        names == [i \in 1..Len(named) |-> named[i].name[1]]
    IN IF ~resp.ok
       THEN [w1 EXCEPT !.ev.nhc = "fail"]
       ELSE IF hurricanes # <<>>
            THEN [w1 EXCEPT !.state.nhc_active_names = names, !.ev.nhc = "ok"]
            ELSE [w1 EXCEPT !.state.nhc_active_names = <<>>, !.ev.nhc = "ok"]

----------------------------------------------------------------------------
(* Forecast sender *)

\* send_forecast: an update less than this many seconds after the last is skipped
DuplicateWindow == 300

\* send_forecast also forgetting the update time when the serial send fails
send_forecast_reset_on_unsent(w, open, t, api, ser) ==
    LET last_update == w.state.last_forecast_update
    IN IF last_update # None /\ t - last_update[1] < DuplicateWindow
       THEN [w EXCEPT !.ev.fc = Append(@, "skipped")]
       ELSE IF api = "raise"
            THEN [w EXCEPT !.state.last_forecast_update = None,
                           !.ev.fc = Append(@, "raised")]
            ELSE IF open /\ ser = "ok"
                 THEN LET w1 == [w EXCEPT !.state.last_forecast_update = Some(t)]
                      IN [send_message(w1, open, ForecastMessage(w1.state), ser)
                             EXCEPT !.ev.fc = Append(@, "sent")]
                 ELSE [w EXCEPT !.state.last_forecast_update = None,
                                !.ev.fc = Append(@, "unsent")]

\* send_forecast whose skip restarts the duplicate window
send_forecast_skip_restarts(w, open, t, api, ser) ==
    LET last_update == w.state.last_forecast_update
    IN IF last_update # None /\ t - last_update[1] < DuplicateWindow
       THEN [w EXCEPT !.state.last_forecast_update = Some(t),
                      !.ev.fc = Append(@, "skipped")]
       ELSE LET w1 == [w EXCEPT !.state.last_forecast_update = Some(t)]
            IN IF api = "raise"
               THEN [w1 EXCEPT !.state.last_forecast_update = None,
                               !.ev.fc = Append(@, "raised")]
               ELSE LET w2 == send_message(w1, open, ForecastMessage(w1.state), ser)
                    IN [w2 EXCEPT !.ev.fc =
                            Append(@, IF open /\ ser = "ok" THEN "sent" ELSE "unsent")]

send_forecast(w, open, t, api, ser) ==
    LET last_update == w.state.last_forecast_update
    IN IF last_update # None /\ t - last_update[1] < DuplicateWindow
       THEN [w EXCEPT !.ev.fc = Append(@, "skipped")]
       ELSE LET w1 == [w EXCEPT !.state.last_forecast_update = Some(t)]
            IN IF api = "raise"
               THEN [w1 EXCEPT !.state.last_forecast_update = None,
                               !.ev.fc = Append(@, "raised")]
               ELSE LET w2 == send_message(w1, open, ForecastMessage(w1.state), ser)
                    IN [w2 EXCEPT !.ev.fc =
                            Append(@, IF open /\ ser = "ok" THEN "sent" ELSE "unsent")]

\* a fresh poll that stops at the first feed that fails
do_fresh_poll_stop_on_error(w, open, t, env) ==
    LET w1 == check_alerts(w, env.nws, t)
        w2 == check_storms(w1, env.nhc, t)
    IN IF w1.ev.nws # "ok" THEN w1
       ELSE IF w2.ev.nhc # "ok" THEN w2
       ELSE send_forecast(w2, open, t, env.api, env.ser)

do_fresh_poll(w, open, t, env) ==
    LET w1 == check_alerts(w, env.nws, t)
        w2 == check_storms(w1, env.nhc, t)
    IN send_forecast(w2, open, t, env.api, env.ser)

----------------------------------------------------------------------------
(* main(): configuration and startup *)

\* the instants at which the program is started
StartTimes ==
    {At(1, 4, 59, 0), At(1, 8, 54, 2), At(1, 8, 59, 2), At(1, 9, 9, 0), At(1, 21, 59, 0)}

Init ==
    /\ pc \in {"menu", "headless"}
    /\ settings \in (IF pc = "headless" THEN {HeadlessSettings} ELSE Settings_load)
    /\ now = DatetimeMin
    /\ state = InitialState
    /\ next_nws_check = DatetimeMin
    /\ sign = NoMessage
    /\ ser_open = FALSE
    /\ ticks = 0
    /\ ev = NoEvent("config")
    /\ ret = None
    /\ frame = None

\* review_settings, choice "4": Update ON/OFF Times (then Settings.save)
review_settings_times(s, on_time, off_time) ==
    IF time_format(on_time) /\ time_format(off_time)
    THEN [s EXCEPT !.ON_TIME = on_time, !.OFF_TIME = off_time]
    ELSE s

UpdateOnOffTimes ==
    /\ pc = "menu"
    /\ \E p \in OnOffInputs :
          settings' = review_settings_times(settings, p[1], p[2])
    /\ UNCHANGED <<pc, now, state, next_nws_check, sign, ser_open, ticks, ev, ret, frame>>

\* a tick's environment: the feeds' responses and the outcomes of the
\* forecast fetch and of the serial writes (api2 / ser2: a second
\* send_forecast in the same iteration)
Envs(polls_nws, polls_nhc, fetches, writes, again) ==
    [nws : Pick(NWSResponses, polls_nws), nhc : Pick(NHCResponses, polls_nhc),
     api : Pick(ApiOutcomes, fetches), ser : Pick(SerialOutcomes, writes),
     api2 : Pick(ApiOutcomes, again), ser2 : Pick(SerialOutcomes, again)]

\* main(), lines 977-1008, reached from review_settings choice "S" or from a
\* headless start: connect, evaluate the window, fresh poll or clear
Startup ==
    /\ pc \in {"menu", "headless"}
    /\ \E connected \in BOOLEAN, t \in StartTimes :
          IF ~connected
          THEN /\ pc' = "exited"
               /\ UNCHANGED <<now, state, next_nws_check, sign, ser_open, ev>>
          ELSE IF ~(time_format(settings.ON_TIME) /\ time_format(settings.OFF_TIME))
          THEN \* strptime raises ValueError in is_display_active, outside the try
               /\ pc' = "crashed"
               /\ now' = t
               /\ ser_open' = TRUE
               /\ UNCHANGED <<state, next_nws_check, sign, ev>>
          ELSE LET current_state == is_display_active(settings, t)
                   w0 == [World("startup") EXCEPT !.state.display_was_active = Some(current_state)]
               IN \E env \in Envs(current_state, current_state, current_state, TRUE, FALSE) :
                     LET w == IF current_state
                              THEN [do_fresh_poll(w0, TRUE, t, env)
                                       EXCEPT !.state.last_forecast_hour = Some(hour(t))]
                              ELSE clear_display(w0, TRUE, env.ser)
                     IN /\ pc' = "running"
                        /\ now' = t
                        /\ ser_open' = TRUE
                        /\ state' = w.state
                        /\ sign' = w.sign
                        /\ ev' = w.ev
                        /\ next_nws_check' = get_next_nws_check(t, FALSE)
    /\ UNCHANGED <<settings, ticks, ret, frame>>

----------------------------------------------------------------------------
(* main(): the coordinating loop, lines 1014-1100 *)

\* lines 1042-1044: the scheduled forecast refresh is due
scheduled_due_unguarded(s, t) ==
    hour(t) \in Range(SCHEDULED_HOURS) /\ minute(t) = 0 /\ second(t) < 5

scheduled_due(s, t) ==
    /\ hour(t) \in Range(SCHEDULED_HOURS) /\ minute(t) = 0 /\ second(t) < 5
    /\ s.last_forecast_hour # Some(hour(t))

\* lines 1040-1050; x is the pair of the world and next_nws_check
scheduled_step(x, open, t, env) ==
    IF scheduled_due(x.w.state, t)
    THEN [w |-> [do_fresh_poll(x.w, open, t, env)
                    EXCEPT !.state.last_forecast_hour = Some(hour(t)),
                           !.ev.scheduled = TRUE,
                           !.ev.refreshed = Append(@, t)],
          nnc |-> get_next_nws_check(t, FALSE)]
    ELSE x

\* lines 1053-1076
nws_step(x, open, t, env) ==
    IF t >= x.nnc
    THEN LET was_alert_active == x.w.state.last_alert_id # None
             w1 == [check_alerts(x.w, env.nws, t) EXCEPT !.ev.loop_poll = TRUE]
             is_alert_active == w1.state.last_alert_id # None
             w2 == IF was_alert_active # is_alert_active
                   THEN send_forecast(w1, open, t, env.api, env.ser)
                   ELSE w1
         IN IF is_alert_active
            THEN [w |-> w2, nnc |-> get_next_nws_check(t, TRUE)]
            ELSE IF was_alert_active /\ ~is_alert_active
                 THEN [w |-> [w2 EXCEPT !.ev.expired = TRUE],
                       nnc |-> get_nearest_5min_mark(t)]
                 ELSE [w |-> w2, nnc |-> get_next_nws_check(t, FALSE)]
    ELSE x

\* lines 1078-1083
nhc_step(x, open, t, env) ==
    IF should_check_nhc(t, x.w.state.last_nhc_pull)
    THEN LET w1 == [check_storms(x.w, env.nhc, t) EXCEPT !.ev.nhc_sched = TRUE]
         IN [x EXCEPT !.w = send_forecast(w1, open, t, env.api2, env.ser2)]
    ELSE x

\* the finally block of main(): shutdown flag, exit message, disconnect
finally(w, open, ser) ==
    send_message([w EXCEPT !.state.shutdown = TRUE], open, ExitMessage, ser)

\* a port that is never found closed
PortReadings_always_open(txfail) == {TRUE}

\* what betabrite.is_connected() of line 1086 may report: serial.Serial.is_open
\* is up to the serial library and the device; the port is found closed only
\* in an iteration one of whose sends failed
PortReadings(txfail) == IF txfail THEN BOOLEAN ELSE {TRUE}

\* lines 1085-1100 and the assignments of the iteration
EndIteration(w, nnc, t) ==
    /\ now' = t
    /\ next_nws_check' = nnc
    /\ ticks' = ticks + 1
    /\ UNCHANGED <<settings, ret, frame>>
    /\ \E is_connected \in PortReadings(w.ev.txfail) :
          IF ~(ser_open /\ is_connected)
          THEN \E connected \in BOOLEAN, ser \in SerialOutcomes :
                  IF connected
                  THEN /\ ser_open' = TRUE
                       /\ pc' = "running"
                       /\ state' = w.state /\ sign' = w.sign /\ ev' = w.ev
                  ELSE LET f == finally(w, FALSE, ser)
                       IN /\ ser_open' = FALSE
                          /\ pc' = "stopped"
                          /\ state' = f.state /\ sign' = f.sign
                          /\ ev' = [f.ev EXCEPT !.port = "lost"]
          ELSE IF w.state.shutdown
               THEN \E ser \in SerialOutcomes :
                       LET f == finally(w, TRUE, ser)
                       IN /\ ser_open' = FALSE
                          /\ pc' = "stopped"
                          /\ state' = f.state /\ sign' = f.sign /\ ev' = f.ev
               ELSE /\ ser_open' = TRUE
                    /\ pc' = "running"
                    /\ state' = w.state /\ sign' = w.sign /\ ev' = w.ev

\* a loop that goes on after the shutdown
Running_after_shutdown == pc \in {"running", "stopped"} /\ ticks < MaxTicks

Running == pc = "running" /\ ticks < MaxTicks

was_active == state.display_was_active = Some(TRUE)

\* lines 1020-1027: the display turns ON
TurnOn ==
    /\ Running
    /\ \E d \in Deltas :
          LET t == now + d
          IN /\ is_display_active(settings, t) /\ ~was_active
             /\ \E env \in Envs(TRUE, TRUE, TRUE, TRUE, FALSE) :
                   LET w0 == [World("on") EXCEPT !.state.display_was_active = Some(TRUE)]
                       w == [do_fresh_poll(w0, ser_open, t, env)
                                EXCEPT !.state.last_forecast_hour = Some(hour(t))]
                   IN EndIteration(w, get_next_nws_check(t, FALSE), t)

\* lines 1029-1034: the display turns OFF
TurnOff ==
    /\ Running
    /\ \E d \in Deltas :
          LET t == now + d
          IN /\ ~is_display_active(settings, t) /\ was_active
             /\ \E ser \in SerialOutcomes :
                   LET w0 == [World("off") EXCEPT !.state.display_was_active = Some(FALSE)]
                   IN EndIteration(clear_display(w0, ser_open, ser), next_nws_check, t)

\* lines 1036-1083: the display is ON
ActiveTick ==
    /\ Running
    /\ \E d \in Deltas :
          LET t == now + d
              sched == scheduled_due(state, t)
              nws_due == sched \/ t >= next_nws_check
              nhc_due == ~sched /\ should_check_nhc(t, state.last_nhc_pull)
          IN /\ is_display_active(settings, t) /\ was_active
             /\ \E env \in Envs(nws_due, sched \/ nhc_due, nws_due, nws_due, nhc_due) :
                   LET x0 == [w |-> World("active"), nnc |-> next_nws_check]
                       x1 == scheduled_step(x0, ser_open, t, env)
                       x2 == nws_step(x1, ser_open, t, env)
                       x3 == nhc_step(x2, ser_open, t, env)
                   IN EndIteration(x3.w, x3.nnc, t)

\* the display is OFF and was OFF: nothing but the tail of the loop
IdleTick ==
    /\ Running
    /\ \E d \in Deltas :
          LET t == now + d
          IN /\ ~is_display_active(settings, t) /\ ~was_active
             /\ EndIteration(World("idle"), next_nws_check, t)

\* KeyboardInterrupt, lines 1102-1116
Interrupt ==
    /\ pc = "running"
    /\ \E ser \in SerialOutcomes :
          LET f == finally(World("interrupt"), ser_open, ser)
          IN /\ pc' = "stopped"
             /\ ser_open' = FALSE
             /\ state' = f.state /\ sign' = f.sign /\ ev' = f.ev
    /\ UNCHANGED <<settings, now, next_nws_check, ticks, ret, frame>>

Next ==
    \/ UpdateOnOffTimes
    \/ Startup
    \/ TurnOn
    \/ TurnOff
    \/ ActiveTick
    \/ IdleTick
    \/ Interrupt

Spec == Init /\ [][Next]_vars

----------------------------------------------------------------------------
(* is_display_active probed over a sweep of the day *)

WindowTimes == {<<0, 0>>, <<6, 0>>, <<8, 30>>, <<22, 0>>, <<23, 59>>}

\* a 24 h sweep: the first and the last second of every minute of day 1
Sweep == {At(1, 0, m, s) : m \in 0..(24 * 60 - 1), s \in {0, 59}}

InitWindow ==
    /\ pc = "probe"
    /\ settings \in [ON_TIME : WindowTimes, OFF_TIME : WindowTimes]
    /\ now \in Sweep
    /\ state = InitialState
    /\ next_nws_check = DatetimeMin
    /\ sign = NoMessage
    /\ ser_open = FALSE
    /\ ticks = 0
    /\ ev = NoEvent("probe")
    /\ ret = None
    /\ frame = None

EvalWindow ==
    /\ pc = "probe"
    /\ pc' = "probed"
    /\ ret' = Some(is_display_active(settings, now))
    /\ UNCHANGED <<settings, now, state, next_nws_check, sign, ser_open, ticks, ev, frame>>

SpecWindow == InitWindow /\ [][EvalWindow]_vars

on_time == strptime(settings.ON_TIME)
off_time == strptime(settings.OFF_TIME)

\* C1: for ON_TIME < OFF_TIME, is_display_active is true exactly at the times
\* of day in [ON_TIME, OFF_TIME) and false at every other time of the sweep
DayWindowExact ==
    (pc = "probed" /\ on_time < off_time)
        => (ret = Some(TRUE) <=> time(now) \in on_time..(off_time - 1))

DayWindowWitness ==
    /\ pc = "probed"
    /\ settings = [ON_TIME |-> <<6, 0>>, OFF_TIME |-> <<22, 0>>]
    /\ time(now) = At(0, 21, 59, 59)
    /\ ret = Some(TRUE)

\* C2: for ON_TIME >= OFF_TIME, is_display_active is true exactly when the time
\* of day is at or after ON_TIME or before OFF_TIME; with ON 22:00 and OFF
\* 06:00 it is true at 23:30 and false at 07:00
OvernightWindowExact ==
    (pc = "probed" /\ on_time >= off_time)
        => /\ ret = Some(TRUE) <=> time(now) \notin off_time..(on_time - 1)
           /\ settings = [ON_TIME |-> <<22, 0>>, OFF_TIME |-> <<6, 0>>]
                 => /\ time(now) = At(0, 23, 30, 0) => ret = Some(TRUE)
                    /\ time(now) = At(0, 7, 0, 0) => ret = Some(FALSE)

OvernightWindowWitness ==
    /\ pc = "probed"
    /\ settings = [ON_TIME |-> <<22, 0>>, OFF_TIME |-> <<6, 0>>]
    /\ time(now) = At(0, 23, 30, 0)
    /\ ret = Some(TRUE)

----------------------------------------------------------------------------
(* The coordinating loop: configuration, schedule and session state *)

\* C3: the coordinating loop never runs with ON_TIME equal to OFF_TIME
NoAmbiguousWindow ==
    pc = "running" => settings.ON_TIME # settings.OFF_TIME

anchor(t) == t \div Hour

\* C4: a scheduled refresh fires at most once per anchor hour and leaves
\* last_forecast_hour at that hour; with last_forecast_hour = 8 the tick at
\* 09:00:02 fires, and a tick at 09:00:04 after it does not
RefreshOncePerAnchorHour ==
    [][/\ ev'.scheduled =>
             /\ anchor(now') \notin {anchor(r) : r \in Range(ev.refreshed)}
             /\ state'.last_forecast_hour = Some(hour(now'))
       /\ (/\ ev'.branch = "active"
           /\ state.last_forecast_hour = Some(8)
           /\ time(now') = At(0, 9, 0, 2)) =>
             /\ ev'.scheduled
             /\ state'.last_forecast_hour = Some(9)
       /\ (/\ ev'.branch = "active"
           /\ time(now') = At(0, 9, 0, 4)
           /\ ev.refreshed # <<>>
           /\ ev.refreshed[Len(ev.refreshed)] = now' - 2) => ~ev'.scheduled
      ]_vars

RefreshOnceWitness ==
    /\ pc = "running"
    /\ ev.branch = "active"
    /\ now = At(1, 9, 0, 4)
    /\ ev.refreshed = <<At(1, 9, 0, 2)>>
    /\ ~ev.scheduled
    /\ state.last_forecast_hour = Some(9)

\* C5: while the NWS alert is active, the next NWS poll the loop has computed
\* is at most 2 minutes after now
ActiveAlertPolledWithinTwoMinutes ==
    (pc = "running" /\ state.last_alert_id # None)
        => next_nws_check <= now + 2 * 60

\* C6: when a poll of the loop changes the alert-active status, a forecast
\* message with the new headlines is written to the sign in that iteration
\* (even in the iterations in which no forecast fetch and no serial write fails)
AlertChangeResent ==
    [][(/\ ev'.loop_poll
        /\ (state.last_alert_id = None) # (state'.last_alert_id = None)
        /\ \A i \in 1..Len(ev'.fc) : ev'.fc[i] \notin {"raised", "unsent"})
          => \E i \in 1..Len(ev'.tx) :
                /\ ev'.tx[i].kind = "forecast"
                /\ ev'.tx[i].nws = state'.nws_active_headlines
      ]_vars

IsGridMark(t) == minute(t) \in {5 * k : k \in 0..11} /\ second(t) = 0

\* C7: when a poll clears the active alert the next poll time is a 5-minute
\* grid mark; an alert found by the poll at minute 12 is polled again at
\* minute 14, and cleared at minute 14 the next poll is at minute 15
ClearRealignsToGrid ==
    [][/\ (state.last_alert_id # None /\ state'.last_alert_id = None)
             => IsGridMark(next_nws_check')
       /\ (/\ ev'.loop_poll
           /\ state.last_alert_id = None /\ state'.last_alert_id # None
           /\ time(now') = At(0, 9, 12, 0))
             => next_nws_check' = now' + 2 * 60
       /\ (/\ ev'.loop_poll
           /\ state.last_alert_id # None /\ state'.last_alert_id = None
           /\ time(now') = At(0, 9, 14, 0))
             => /\ ev'.expired
                /\ next_nws_check' = now' + 60
      ]_vars

\* the alert was found by the loop's poll at 09:12:00 (the forecast re-sent
\* then is the last update) and cleared by the poll at 09:14:00
ClearRealignsWitness ==
    /\ pc = "running"
    /\ ev.expired
    /\ now = At(1, 9, 14, 0)
    /\ state.last_forecast_update = Some(At(1, 9, 12, 0))
    /\ state.last_alert_id = None
    /\ next_nws_check = At(1, 9, 15, 0)

\* C8: the mark get_nearest_5min_mark returns when an alert clears is the
\* earliest 5-minute grid instant on or after now, never before now
NearestMarkNotBeforeNow ==
    (pc = "running" /\ ev.expired)
        => /\ next_nws_check >= now
           /\ IsGridMark(next_nws_check)
           /\ next_nws_check - now < 5 * 60

TimestampsNeverGoBack ==
    [][/\ state'.last_nws_pull >= state.last_nws_pull
       /\ state'.last_nhc_pull >= state.last_nhc_pull
       /\ state.last_forecast_update # None =>
             /\ state'.last_forecast_update # None
             /\ state'.last_forecast_update[1] >= state.last_forecast_update[1]
      ]_vars

\* C10 amended: last_nws_pull and last_nhc_pull never decrease;
\* last_forecast_update never goes to an earlier instant, and goes from set to
\* unset only in a step in which send_forecast caught an exception
TimestampsMonotoneButReset ==
    [][/\ state'.last_nws_pull >= state.last_nws_pull
       /\ state'.last_nhc_pull >= state.last_nhc_pull
       /\ (state.last_forecast_update # None /\ state'.last_forecast_update # None)
             => state'.last_forecast_update[1] >= state.last_forecast_update[1]
       /\ (state.last_forecast_update # None /\ state'.last_forecast_update = None)
             => "raised" \in Range(ev'.fc)
      ]_vars

\* a forecast update time was set, a later send_forecast replaced it
TimestampsWitness ==
    /\ pc = "running"
    /\ ev.prev_update # None
    /\ state.last_forecast_update = Some(now)
    /\ ev.prev_update[1] < now
    /\ state.last_nws_pull = now

----------------------------------------------------------------------------
(* C11: the alert id goes from set to None in a step exactly when that      *)
(* step's NWS poll succeeded and its feed held no alert entry: a step that  *)
(* clears the id made such a poll, every such poll leaves the id None, and  *)
(* a failed poll, the OFF transition, an idle tick, a forecast send or the  *)
(* shutdown leave a set id as it was.                                       *)
AlertIdClearedByEmptyFeedOnly ==
    [][/\ (state.last_alert_id # None /\ state'.last_alert_id = None)
            => (ev'.nws = "ok" /\ ev'.feed = Some(0))
       /\ (ev'.nws = "ok" /\ ev'.feed = Some(0)) => state'.last_alert_id = None
       /\ (ev'.nws \in {"none", "fail"} \/ ev'.branch \in {"off", "idle", "interrupt"})
            => (state.last_alert_id # None
                    => state'.last_alert_id = state.last_alert_id)]_vars

\* an alert was active and a successful poll with an empty feed cleared it
AlertIdClearedWitness ==
    /\ ev.expired
    /\ ev.nws = "ok"
    /\ ev.feed = Some(0)
    /\ state.last_alert_id = None

SameHourAndDate(a, b) == hour(a) = hour(b) /\ date(a) = date(b)

(* C12: the loop's own NHC poll happens only at an hour of 5, 11, 17, 23    *)
(* and only when the stored last poll is not of that hour and date; the     *)
(* poll stores its time, and once the stored time is in the current hour    *)
(* and date should_check_nhc is false for the rest of the hour (at now and  *)
(* 1, 2, 3, 4, 5, 30 and 59 minutes later, when still in the hour); it is   *)
(* false at every other hour whatever the stored time.                      *)
NhcPolledOncePerEligibleHour ==
    [][/\ ev'.nhc_sched
            => /\ hour(now') \in {5, 11, 17, 23}
               /\ ~SameHourAndDate(state.last_nhc_pull, now')
               /\ state'.last_nhc_pull = now'
       /\ SameHourAndDate(state'.last_nhc_pull, now')
            => \A m \in {0, 1, 2, 3, 4, 5, 30, 59} :
                 now' + 60 * m < replace_minute(now', 0) + Hour
                    => ~should_check_nhc(now' + 60 * m, state'.last_nhc_pull)
       /\ hour(now') \notin {5, 11, 17, 23}
            => /\ ~ev'.nhc_sched
               /\ ~should_check_nhc(now', state'.last_nhc_pull)
               /\ ~should_check_nhc(now', DatetimeMin)]_vars

\* a later tick of an eligible hour the loop already polled NHC in
NhcPolledOnceWitness ==
    /\ ev.branch = "active"
    /\ hour(now) \in {5, 11, 17, 23}
    /\ minute(now) < 5
    /\ state.last_nhc_pull < now
    /\ SameHourAndDate(state.last_nhc_pull, now)
    /\ ~ev.nhc_sched
    /\ ev.nhc = "none"

----------------------------------------------------------------------------
(* Forecast planning: get_forecast_times and get_next_forecast_update,      *)
(* evaluated at every instant of the sweep.                                 *)

\* datetime.replace(hour=h, minute=0, second=0, microsecond=0)
replace_hour(t, h) == date(t) * Day + h * Hour

\* the list comprehension keeping the scheduled hour itself
next_hours_inclusive(h) ==
    LET later(x) == x >= h
    IN SelectSeq(SCHEDULED_HOURS, later)

\* [h for h in SCHEDULED_HOURS if h > current_hour]
next_hours(h) ==
    LET later(x) == x > h
    IN SelectSeq(SCHEDULED_HOURS, later)

\* the body of the loop without the day added on the rollover
next_forecast_time_same_day(current, current_hour) ==
    LET hours == next_hours(current_hour)
    IN IF hours # <<>>
       THEN [time |-> replace_hour(current, hours[1]), hour |-> hours[1]]
       ELSE [time |-> replace_hour(current, SCHEDULED_HOURS[1]),
             hour |-> SCHEDULED_HOURS[1]]

\* one pass of the loop of get_forecast_times: next_time and next_hour
next_forecast_time(current, current_hour) ==
    LET hours == next_hours(current_hour)
    IN IF hours # <<>>
       THEN [time |-> replace_hour(current, hours[1]), hour |-> hours[1]]
       ELSE [time |-> replace_hour(current, SCHEDULED_HOURS[1]) + Day,
             hour |-> SCHEDULED_HOURS[1]]

get_forecast_times(t) ==
    LET current == IF hour(t) \in Range(SCHEDULED_HOURS) /\ minute(t) < 5
                   THEN replace_minute(t, 0)
                   ELSE t
        n1 == next_forecast_time(current, hour(current))
        n2 == next_forecast_time(n1.time, n1.hour)
    IN <<current, n1.time, n2.time>>

\* get_next_forecast_update replacing the hour before adding the day, and
\* then not adding it
get_next_forecast_update_same_day(t) ==
    LET hours == next_hours(hour(t))
    IN IF hours # <<>>
       THEN replace_hour(t, hours[1])
       ELSE replace_hour(t, SCHEDULED_HOURS[1])

get_next_forecast_update(t) ==
    LET hours == next_hours(hour(t))
    IN IF hours # <<>>
       THEN replace_hour(t, hours[1])
       ELSE replace_hour(t + Day, SCHEDULED_HOURS[1])

InitPlanner ==
    /\ pc = "probe"
    /\ settings = DEFAULT_SETTINGS
    /\ now \in Sweep
    /\ state = InitialState
    /\ next_nws_check = DatetimeMin
    /\ sign = NoMessage
    /\ ser_open = FALSE
    /\ ticks = 0
    /\ ev = NoEvent("probe")
    /\ ret = None
    /\ frame = None

EvalForecastTimes ==
    /\ pc = "probe"
    /\ pc' = "probed"
    /\ frame' = Some("get_forecast_times")
    /\ ret' = Some(get_forecast_times(now))
    /\ UNCHANGED <<settings, now, state, next_nws_check, sign, ser_open, ticks, ev>>

EvalNextForecastUpdate ==
    /\ pc = "probe"
    /\ pc' = "probed"
    /\ frame' = Some("get_next_forecast_update")
    /\ ret' = Some(get_next_forecast_update(now))
    /\ UNCHANGED <<settings, now, state, next_nws_check, sign, ser_open, ticks, ev>>

NextPlanner == EvalForecastTimes \/ EvalNextForecastUpdate

SpecPlanner == InitPlanner /\ [][NextPlanner]_vars

\* the anchor instants (a scheduled hour, minute 0) of the day of now and the next
AnchorInstants ==
    {d * Day + SCHEDULED_HOURS[k] * Hour :
        d \in date(now)..(date(now) + 1), k \in 1..Len(SCHEDULED_HOURS)}

\* the first anchor instant strictly after t
NextAnchorAfter(t) ==
    CHOOSE a \in AnchorInstants :
        a > t /\ \A b \in AnchorInstants : b > t => a <= b

\* C13: get_forecast_times returns three instants, each strictly after the
\* one before, the third at most 24 hours after now
ForecastTimesThreeIncreasing ==
    (pc = "probed" /\ frame = Some("get_forecast_times"))
        => /\ Len(ret[1]) = 3
           /\ ret[1][1] < ret[1][2]
           /\ ret[1][2] < ret[1][3]
           /\ ret[1][3] <= now + 24 * Hour

\* the three instants of a call late in the evening, the last two on the next day
ForecastTimesThreeWitness ==
    /\ pc = "probed"
    /\ frame = Some("get_forecast_times")
    /\ hour(now) = 22
    /\ Len(ret[1]) = 3
    /\ date(ret[1][2]) = date(now) + 1
    /\ ret[1][3] = ret[1][2] + 3 * Hour

\* C14: the first element is now cut to the top of its hour when the hour
\* is a multiple of 3 and the minute is under 5, and now itself otherwise;
\* the second is the first anchor instant after the top of the first
\* element's hour and the third the first anchor instant after the second,
\* on the next day when the hour before was 21 or later
ForecastTimesOnAnchors ==
    (pc = "probed" /\ frame = Some("get_forecast_times"))
        => LET first == ret[1][1]
               top == first - (first % Hour)
           IN /\ first = IF hour(now) % 3 = 0 /\ minute(now) <= 4
                          THEN now - (now % Hour)
                          ELSE now
              /\ ret[1][2] = NextAnchorAfter(top)
              /\ ret[1][3] = NextAnchorAfter(ret[1][2])
              /\ hour(first) >= 21 => ret[1][2] = (date(first) + 1) * Day
              /\ hour(first) \in 18..20 => ret[1][3] = (date(first) + 1) * Day

\* a call at 21:03:59: the first element is 21:00:00, the next two are 00:00
\* and 03:00 of the next day
ForecastTimesAnchorsWitness ==
    /\ pc = "probed"
    /\ frame = Some("get_forecast_times")
    /\ now = At(1, 21, 3, 59)
    /\ ret = Some(<<At(1, 21, 0, 0), At(2, 0, 0, 0), At(2, 3, 0, 0)>>)

\* C15: get_next_forecast_update returns the first anchor instant strictly
\* after now: an anchor instant after now with no anchor instant in between
NextUpdateIsNextAnchor ==
    (pc = "probed" /\ frame = Some("get_next_forecast_update"))
        => /\ ret[1] \in AnchorInstants
           /\ ret[1] > now
           /\ \A a \in AnchorInstants : ~(now < a /\ a < ret[1])

\* a call on an anchor instant returns the next one, a call after 21:00
\* the midnight of the next day
NextUpdateWitness ==
    /\ pc = "probed"
    /\ frame = Some("get_next_forecast_update")
    /\ \/ now = At(1, 9, 0, 0) /\ ret = Some(At(1, 12, 0, 0))
       \/ now = At(1, 23, 59, 59) /\ ret = Some(At(2, 0, 0, 0))

----------------------------------------------------------------------------
(* The sign's frame: build_colored_blocks and the packet of send_message.   *)
(* A text is the sequence of the code points of its characters, a packet    *)
(* the sequence of its bytes.                                               *)

NUL == 0
SOH == 1
STX == 2
EOT == 4
ESC == 27
SP == 32
FS == 28

\* "3"
COLORS_TODAY == <<51>>
\* a future palette that starts with the color of today
COLORS_FUTURE_overlapping == <<51, 52, 53, 54, 55>>

\* "4", "5", "6", "7", "8"
COLORS_FUTURE == <<52, 53, 54, 55, 56>>

\* the longest list of blocks handed to build_colored_blocks
MaxBlocks == 6

\* block texts: "A", "B " (ends with a space), "C" + degree sign, "D" + FS
Blocks == {<<65>>, <<66, 32>>, <<67, 176>>, <<68, 28>>}

BlockLists == UNION {[1..n -> Blocks] : n \in 0..MaxBlocks}

\* the two block modes of build_colored_blocks
BlockModes == {"today", "future"}

\* the write mode of send_message: "a" (the default, the only one main() uses)
\* and "b"; str.encode() of an ASCII mode is its one byte
WriteModes == {<<97>>, <<98>>}

\* text.encode("ascii", "replace"): a "?" in place of a non-ASCII character
encode_ascii_replace(text) ==
    [i \in 1..Len(text) |-> IF text[i] < 128 THEN text[i] ELSE 63]

\* text.encode("ascii", "ignore")
encode_ascii_ignore(text) ==
    LET is_ascii(c) == c < 128
    IN SelectSeq(text, is_ascii)

\* the packet of send_message, lines 583-584
packet(text, mode) ==
    [i \in 1..10 |-> NUL] \o <<SOH>> \o <<90, 48, 48>> \o <<STX>> \o <<65, 65>>
        \o <<ESC>> \o <<SP>> \o mode \o encode_ascii_ignore(text) \o <<EOT>>

\* build_colored_blocks without the two spaces after a block
colored_block_bare(blocks, mode, i) ==
    LET color_seq == IF mode = "today" THEN COLORS_TODAY ELSE COLORS_FUTURE
    IN <<FS, color_seq[((i - 1) % Len(color_seq)) + 1]>> \o blocks[i]

\* f"{FS}{color}{block}  " for the block of (1-based) position i
colored_block(blocks, mode, i) ==
    LET color_seq == IF mode = "today" THEN COLORS_TODAY ELSE COLORS_FUTURE
    IN <<FS, color_seq[((i - 1) % Len(color_seq)) + 1]>> \o blocks[i] \o <<32, 32>>

RECURSIVE colored_upto(_, _, _)
colored_upto(blocks, mode, n) ==
    IF n = 0 THEN <<>>
    ELSE colored_upto(blocks, mode, n - 1) \o colored_block(blocks, mode, n)

build_colored_blocks(blocks, mode) == colored_upto(blocks, mode, Len(blocks))

InitEncoder ==
    /\ pc = "probe"
    /\ settings = DEFAULT_SETTINGS
    /\ now = DatetimeMin
    /\ state = InitialState
    /\ next_nws_check = DatetimeMin
    /\ sign = NoMessage
    /\ ser_open = TRUE
    /\ ticks = 0
    /\ ev = NoEvent("probe")
    /\ ret = None
    /\ frame \in [blocks : BlockLists, mode : BlockModes, write_mode : WriteModes]

\* send_message(build_colored_blocks(blocks, mode), write_mode) up to the packet
SendBlocks ==
    /\ pc = "probe"
    /\ pc' = "probed"
    /\ LET text == build_colored_blocks(frame.blocks, frame.mode)
       IN ret' = [text |-> text, packet |-> packet(text, frame.write_mode)]
    /\ UNCHANGED <<settings, now, state, next_nws_check, sign, ser_open, ticks, ev, frame>>

SpecEncoder == InitEncoder /\ [][SendBlocks]_vars

\* the characters of a text below code point 128, in order
RECURSIVE AsciiOnly(_)
AsciiOnly(text) ==
    IF text = <<>> THEN <<>>
    ELSE IF Head(text) <= 127 THEN <<Head(text)>> \o AsciiOnly(Tail(text))
         ELSE AsciiOnly(Tail(text))

\* C16: the frame for text T and write mode m is 10 NUL bytes, SOH, "Z00",
\* STX, "AA", ESC, a space, the mode byte, the ASCII characters of T in
\* order (the others dropped), EOT, and nothing else
FrameExact ==
    pc = "probed"
        => LET P == ret.packet
               n == Len(P)
           IN /\ n = 21 + Cardinality({i \in 1..Len(ret.text) : ret.text[i] <= 127})
              /\ \A i \in 1..10 : P[i] = 0
              /\ SubSeq(P, 11, 19) = <<1, 90, 48, 48, 2, 65, 65, 27, 32>>
              /\ P[20] = frame.write_mode[1]
              /\ SubSeq(P, 21, n - 1) = AsciiOnly(ret.text)
              /\ P[n] = 4

\* a text with a non-ASCII character sent in mode "b": the frame is shorter
\* than the text plus the framing
FrameWitness ==
    /\ pc = "probed"
    /\ frame.write_mode = <<98>>
    /\ \E i \in 1..Len(ret.text) : ret.text[i] > 127
    /\ Len(ret.packet) < 21 + Len(ret.text)
    /\ ret.packet[Len(ret.packet)] = 4

\* the pieces of s that follow each occurrence of sep, up to the next one
SplitAfter(s, sep) ==
    LET pos == {i \in 1..Len(s) : s[i] = sep}
        nth(k) == CHOOSE q \in pos : Cardinality({r \in pos : r < q}) = k - 1
        last(k) == IF k = Cardinality(pos) THEN Len(s) ELSE nth(k + 1) - 1
    IN [k \in 1..Cardinality(pos) |-> SubSeq(s, nth(k) + 1, last(k))]

\* the decoder of a frame: the payload between the mode byte and EOT split
\* at FS; of each piece the first byte is the color code and the rest, less
\* the two separator spaces, the block text
Decode(P) ==
    LET pieces == SplitAfter(SubSeq(P, 21, Len(P) - 1), FS)
    IN [k \in 1..Len(pieces) |->
           [color |-> SubSeq(pieces[k], 1, 1),
            text |-> SubSeq(pieces[k], 2, Len(pieces[k]) - 2)]]

\* the blocks handed to build_colored_blocks with the colors of their palette
Assigned(blocks, mode) ==
    LET palette == IF mode = "today" THEN COLORS_TODAY ELSE COLORS_FUTURE
    IN [k \in 1..Len(blocks) |->
           [color |-> <<palette[((k - 1) % Len(palette)) + 1]>>, text |-> blocks[k]]]

\* C17 as stated: for every list of blocks, decoding the frame gives back
\* the blocks and their colors
RoundTripExact ==
    pc = "probed" => Decode(ret.packet) = Assigned(frame.blocks, frame.mode)

IsPlainAscii(block) == \A j \in 1..Len(block) : block[j] <= 127 /\ block[j] # FS

\* C17 amended: for every list of blocks of ASCII characters other than FS,
\* decoding the frame (less the two spaces that end each block) gives back
\* the blocks and their colors
RoundTripAsciiBlocks ==
    (pc = "probed" /\ \A i \in 1..Len(frame.blocks) : IsPlainAscii(frame.blocks[i]))
        => Decode(ret.packet) = Assigned(frame.blocks, frame.mode)

\* three ASCII blocks, one ending with a space, decoded back
RoundTripWitness ==
    /\ pc = "probed"
    /\ frame.blocks = <<<<65>>, <<66, 32>>, <<65>>>>
    /\ frame.mode = "future"
    /\ Decode(ret.packet) = Assigned(frame.blocks, frame.mode)

\* the place in the colored text of the color code of block i
RECURSIVE ColorOffset(_, _)
ColorOffset(blocks, i) ==
    IF i = 1 THEN 2 ELSE ColorOffset(blocks, i - 1) + Len(blocks[i - 1]) + 4

ColorAt(i) == ret.text[ColorOffset(frame.blocks, i)]

Palette(mode) == Range(IF mode = "today" THEN COLORS_TODAY ELSE COLORS_FUTURE)

\* the palettes share no color code, and block i (counted from 0) of the
\* call has the color code i mod palette length of its palette
PalettesDisjointAndCyclic ==
    /\ Palette("today") \cap Palette("future") = {}
    /\ \A i \in 1..Len(frame.blocks) :
          /\ ColorAt(i) \in Palette(frame.mode)
          /\ ColorAt(i) = IF frame.mode = "today"
                          THEN COLORS_TODAY[((i - 1) % 1) + 1]
                          ELSE COLORS_FUTURE[((i - 1) % 5) + 1]

\* C19 as stated: disjoint palettes assigned cyclically by block index, and
\* two adjacent blocks of one palette never with the same color code
AdjacentBlocksDiffer ==
    pc = "probed"
        => /\ PalettesDisjointAndCyclic
           /\ \A i \in 1..(Len(frame.blocks) - 1) : ColorAt(i) # ColorAt(i + 1)

\* C19 amended: disjoint palettes assigned cyclically by block index; two
\* adjacent future-day blocks never have the same color code, and every
\* today block has the one color code of the today palette
AdjacentFutureBlocksDiffer ==
    pc = "probed"
        => /\ PalettesDisjointAndCyclic
           /\ frame.mode = "future"
                => \A i \in 1..(Len(frame.blocks) - 1) : ColorAt(i) # ColorAt(i + 1)
           /\ frame.mode = "today"
                => \A i \in 1..Len(frame.blocks) : ColorAt(i) = 51

\* six future-day blocks: the sixth has the color of the first again, after
\* the last color of the palette
AdjacentFutureWitness ==
    /\ pc = "probed"
    /\ frame.mode = "future"
    /\ Len(frame.blocks) = 6
    /\ ColorAt(1) = 52
    /\ ColorAt(5) = 56
    /\ ColorAt(6) = 52

----------------------------------------------------------------------------
(* The text send_forecast builds and truncates (lines 718-739), for today   *)
(* blocks, future blocks, hurricane names and alert headlines whose         *)
(* lengths bring the text around MAX_DISPLAY_MESSAGE_SIZE.                  *)

MAX_DISPLAY_MESSAGE_SIZE == 2048

\* "1"
ALERT_COLOR == 49

\* " || Next Update: "
NextUpdateLabel == <<32, 124, 124, 32, 78, 101, 120, 116, 32, 85, 112, 100, 97, 116, 101, 58, 32>>

\* next_update_str, as strftime formats 3:00 AM of 1/02/24: "1/02/24 3:00 AM"
NextUpdateStrings == {<<49, 47, 48, 50, 47, 50, 52, 32, 51, 58, 48, 48, 32, 65, 77>>}

\* " || "
Bar == <<32, 124, 124, 32>>

\* "NHC Atlantic Hurricane(s): "
NhcLabel == <<78, 72, 67, 32, 65, 116, 108, 97, 110, 116, 105, 99, 32, 72, 117, 114, 114, 105, 99, 97, 110, 101, 40, 115, 41, 58, 32>>

\* "NWS Alert: "
NwsLabel == <<78, 87, 83, 32, 65, 108, 101, 114, 116, 58, 32>>

\* ", ".join(names)
RECURSIVE join_comma(_)
join_comma(names) ==
    IF names = <<>> THEN <<>>
    ELSE IF Len(names) = 1 THEN names[1]
         ELSE names[1] \o <<44, 32>> \o join_comma(Tail(names))

\* "".join([f" || {FS}{ALERT_COLOR}NWS Alert: {headline}" for headline in ...])
RECURSIVE nws_text(_)
nws_text(headlines) ==
    IF headlines = <<>> THEN <<>>
    ELSE Bar \o <<FS, ALERT_COLOR>> \o NwsLabel \o headlines[1]
             \o nws_text(Tail(headlines))

nhc_text(names) ==
    IF names # <<>>
    THEN Bar \o <<FS, ALERT_COLOR>> \o NhcLabel \o join_comma(names)
    ELSE <<>>

\* colored_text + update_text + nhc_text + nws_text of line 731
naive_message(today_blocks, future_blocks, next_update_str, names, headlines) ==
    build_colored_blocks(today_blocks, "today")
        \o build_colored_blocks(future_blocks, "future")
        \o NextUpdateLabel \o next_update_str \o nhc_text(names) \o nws_text(headlines)

\* s[:n]
Prefix(s, n) == SubSeq(s, 1, IF n < Len(s) THEN n ELSE Len(s))

\* the full_message send_forecast hands to send_message, lines 731-739
full_message(today_blocks, future_blocks, next_update_str, names, headlines) ==
    LET naive == naive_message(today_blocks, future_blocks, next_update_str,
                               names, headlines)
        shorter == naive_message(today_blocks, Prefix(future_blocks, 3),
                                 next_update_str, names, headlines)
    IN IF Len(naive) > MAX_DISPLAY_MESSAGE_SIZE
       THEN IF Len(shorter) > MAX_DISPLAY_MESSAGE_SIZE
            THEN Prefix(shorter, MAX_DISPLAY_MESSAGE_SIZE - 3) \o <<46, 46, 46>>
            ELSE shorter
       ELSE naive

\* a block text of n characters "A"
BlockOf(n) == [i \in 1..n |-> 65]

\* today blocks: a short one, and one or two blocks whose colored length
\* goes from 2040 to 2050
TodayBlockLists ==
    {<<BlockOf(30)>>}
        \cup {<<BlockOf(n)>> : n \in 2036..2046}
        \cup {<<BlockOf(20), BlockOf(n)>> : n \in 2012..2022}

\* future blocks: none, three or five, short or long
FutureBlockLists ==
    {[i \in 1..k |-> BlockOf(m)] : k \in {0, 3, 5}, m \in {30, 600}}

\* get_nhc_names(): none or "IAN"
NhcNameLists == {<<>>, <<<<73, 65, 78>>>>}

\* get_nws_headlines(): none or "H1"
NwsHeadlineLists == {<<>>, <<<<72, 49>>>>}

InitTruncate ==
    /\ pc = "probe"
    /\ settings = DEFAULT_SETTINGS
    /\ now = DatetimeMin
    /\ state = InitialState
    /\ next_nws_check = DatetimeMin
    /\ sign = NoMessage
    /\ ser_open = TRUE
    /\ ticks = 0
    /\ ev = NoEvent("probe")
    /\ ret = None
    /\ frame \in [today_blocks : TodayBlockLists, future_blocks : FutureBlockLists,
                   next_update_str : NextUpdateStrings,
                   nhc_names : NhcNameLists, nws_headlines : NwsHeadlineLists]

\* lines 718-739 of send_forecast
BuildMessage ==
    /\ pc = "probe"
    /\ pc' = "probed"
    /\ ret' = [naive |-> naive_message(frame.today_blocks, frame.future_blocks,
                                       frame.next_update_str, frame.nhc_names,
                                       frame.nws_headlines),
               message |-> full_message(frame.today_blocks, frame.future_blocks,
                                        frame.next_update_str, frame.nhc_names,
                                        frame.nws_headlines)]
    /\ UNCHANGED <<settings, now, state, next_nws_check, sign, ser_open, ticks, ev, frame>>

SpecTruncate == InitTruncate /\ [][BuildMessage]_vars

\* the place in the colored today text of the first character of block i
RECURSIVE BlockOffset(_, _)
BlockOffset(blocks, i) ==
    IF i = 1 THEN 3 ELSE BlockOffset(blocks, i - 1) + Len(blocks[i - 1]) + 4

\* block i of the today blocks stands whole in the message, at its place
TodayBlockPresent(i) ==
    LET from == BlockOffset(frame.today_blocks, i)
        to == from + Len(frame.today_blocks[i]) - 1
    IN /\ to <= Len(ret.message)
       /\ SubSeq(ret.message, from, to) = frame.today_blocks[i]

\* C18: when the naive concatenation is longer than MAX_DISPLAY_MESSAGE_SIZE
\* the message sent is at most that long, and every today block is in it
\* whole whenever the colored today blocks alone are at most that long
TruncationKeepsTodayBlocks ==
    (pc = "probed" /\ Len(ret.naive) > MAX_DISPLAY_MESSAGE_SIZE)
        => /\ Len(ret.message) <= MAX_DISPLAY_MESSAGE_SIZE
           /\ Len(build_colored_blocks(frame.today_blocks, "today"))
                    <= MAX_DISPLAY_MESSAGE_SIZE
                => \A i \in 1..Len(frame.today_blocks) : TodayBlockPresent(i)

\* the first half of C18 alone: the message sent is never longer than
\* MAX_DISPLAY_MESSAGE_SIZE
MessageWithinSize ==
    pc = "probed" => Len(ret.message) <= MAX_DISPLAY_MESSAGE_SIZE

----------------------------------------------------------------------------
(* The write loop of BetaBrite.send_message (lines 578-608).  now is the    *)
(* reading of time.time(), in whole seconds; the 0.2 s of                   *)
(* SERIAL_WRITE_DELAY after a successful write are below that resolution.   *)

MAX_SEND_RETRY_TIME == 300

\* time.sleep(10) of line 608
RetrySleep == 10

\* the seconds ser.write / ser.flush take before they return or raise
WriteTimes == {0, 1, 3}

\* the give-up test taking the limit itself as exceeded
give_up_at_limit(elapsed) == elapsed >= MAX_SEND_RETRY_TIME

\* if elapsed > MAX_SEND_RETRY_TIME
give_up(elapsed) == elapsed > MAX_SEND_RETRY_TIME

InitSend ==
    /\ pc = "send"
    /\ settings = DEFAULT_SETTINGS
    /\ now \in {0, At(1, 8, 59, 2)}
    /\ state = InitialState
    /\ next_nws_check = DatetimeMin
    /\ sign = NoMessage
    /\ ser_open \in BOOLEAN
    /\ ticks = 0
    /\ ev = NoEvent("probe")
    /\ ret = None
    /\ frame = [start_time |-> None, writes |-> 0, failed |-> 0, slept |-> 0,
                last |-> "none"]

\* lines 579-581
SendNotOpen ==
    /\ pc = "send"
    /\ ~ser_open
    /\ pc' = "returned"
    /\ ret' = Some(FALSE)
    /\ UNCHANGED <<settings, now, state, next_nws_check, sign, ser_open, ticks, ev, frame>>

\* lines 583-595: the packet, the log line, start_time
SendStart ==
    /\ pc = "send"
    /\ ser_open
    /\ pc' = "write"
    /\ frame' = [frame EXCEPT !.start_time = Some(now)]
    /\ UNCHANGED <<settings, now, state, next_nws_check, sign, ser_open, ticks, ev, ret>>

\* lines 598-602: write and flush succeed
WriteSucceeds ==
    /\ pc = "write"
    /\ \E d \in WriteTimes :
          /\ now' = now + d
          /\ frame' = [frame EXCEPT !.writes = @ + 1, !.last = "ok"]
          /\ sign' = ForecastMessage(state)
          /\ ret' = Some(TRUE)
          /\ pc' = "returned"
    /\ UNCHANGED <<settings, state, next_nws_check, ser_open, ticks, ev>>

\* lines 598-608: write or flush raises; give up, or sleep and go round again
WriteFails ==
    /\ pc = "write"
    /\ \E d \in WriteTimes :
          LET elapsed == (now + d) - frame.start_time[1]
          IN IF give_up(elapsed)
             THEN /\ now' = now + d
                  /\ frame' = [frame EXCEPT !.writes = @ + 1, !.failed = @ + 1,
                                            !.last = "fail"]
                  /\ ret' = Some(FALSE)
                  /\ pc' = "returned"
             ELSE /\ now' = now + d + RetrySleep
                  /\ frame' = [frame EXCEPT !.writes = @ + 1, !.failed = @ + 1,
                                            !.slept = @ + 1, !.last = "fail"]
                  /\ ret' = ret
                  /\ pc' = "write"
    /\ UNCHANGED <<settings, state, next_nws_check, sign, ser_open, ticks, ev>>

NextSend == SendNotOpen \/ SendStart \/ WriteSucceeds \/ WriteFails

\* the call runs on: a write returns or raises, a sleep ends
SpecSend == InitSend /\ [][NextSend]_vars /\ WF_vars(NextSend)

\* what a call that is in its loop or has returned has done so far
SendOutcome ==
    /\ pc = "write"
         => /\ ret = None
            /\ frame.slept = frame.failed
            /\ frame.writes = frame.failed
            /\ now - frame.start_time[1] >= 10 * frame.slept
            /\ frame.writes <= (300 \div 10) + 1
    /\ (pc = "returned" /\ ~ser_open)
         => (ret = Some(FALSE) /\ frame.writes = 0 /\ sign = NoMessage)
    /\ (pc = "returned" /\ ser_open /\ ret = Some(TRUE))
         => /\ frame.last = "ok"
            /\ frame.writes = frame.failed + 1
            /\ frame.slept = frame.failed
    /\ (pc = "returned" /\ ser_open /\ ret = Some(FALSE))
         => /\ frame.last = "fail"
            /\ frame.writes = frame.failed
            /\ frame.slept = frame.failed - 1
            /\ now - frame.start_time[1] > 300
    /\ pc = "returned" => ret \in {Some(TRUE), Some(FALSE)}

\* C20: send_message returns; on an open port it returns True at its first
\* successful write, having slept 10 s after every failed write before it,
\* and False only at a failed write seen more than 300 s after start_time;
\* on a port that is not open it returns False and writes nothing
SendTerminates ==
    /\ []SendOutcome
    /\ <>(pc = "returned")

\* a call that gave up: 310 s after its start, after 32 failed writes and
\* 31 sleeps, the write at 300 s not being late enough
SendGaveUpWitness ==
    /\ pc = "returned"
    /\ ser_open
    /\ ret = Some(FALSE)
    /\ frame.writes = 32
    /\ frame.slept = 31
    /\ now - frame.start_time[1] = 310

----------------------------------------------------------------------------
(* The bounded HTTP retries: retry_request (lines 439-447) and the loops of *)
(* Validator.api_key, zip_code and forecast_zone (lines 262-306).           *)

MAX_API_RETRIES == 3
API_RETRY_DELAY == 5

\* the callers of the retry loop
RetryFuncs == {"retry_request", "api_key", "zip_code", "forecast_zone"}

\* the seconds requests.get takes before it returns or raises
RequestTimes == {0, 1, 5}

\* response.status_code of an attempt that got a response
StatusCodes == {200, 404}

\* a delay after the last failed attempt too
sleeps_after_always(attempt) == TRUE

\* if attempt < MAX_API_RETRIES - 1: time.sleep(API_RETRY_DELAY)
sleeps_after(attempt) == attempt < MAX_API_RETRIES - 1

InitRetry ==
    /\ pc = "call"
    /\ settings = DEFAULT_SETTINGS
    /\ now \in {0, At(1, 8, 59, 2)}
    /\ state = InitialState
    /\ next_nws_check = DatetimeMin
    /\ sign = NoMessage
    /\ ser_open = FALSE
    /\ ticks = 0
    /\ ev = NoEvent("probe")
    /\ ret = None
    /\ \E f \in RetryFuncs, ok \in BOOLEAN :
          /\ f = "retry_request" => ok
          /\ frame = [func |-> f, arg_ok |-> ok, start_time |-> now, attempt |-> 0,
                      attempts |-> 0, sleeps |-> 0, last |-> "none"]

\* the tests before the loop: a validator returns False on a missing or
\* malformed argument (lines 264, 278-281, 292); retry_request has none
RetryEnter ==
    /\ pc = "call"
    /\ IF frame.arg_ok
       THEN pc' = "attempt" /\ ret' = ret
       ELSE pc' = "returned" /\ ret' = Some(FALSE)
    /\ UNCHANGED <<settings, now, state, next_nws_check, sign, ser_open, ticks, ev, frame>>

\* an attempt that returns: retry_request returns the response, a validator
\* whether its status is 200
AttemptSucceeds ==
    /\ pc = "attempt"
    /\ frame.attempt < MAX_API_RETRIES
    /\ \E d \in RequestTimes, status \in StatusCodes :
          /\ now' = now + d
          /\ ret' = IF frame.func = "retry_request"
                    THEN Some(status)
                    ELSE Some(status = 200)
    /\ frame' = [frame EXCEPT !.attempts = @ + 1, !.last = "ok"]
    /\ pc' = "returned"
    /\ UNCHANGED <<settings, state, next_nws_check, sign, ser_open, ticks, ev>>

\* an attempt that raises: sleep and go round again, or end the loop
AttemptFails ==
    /\ pc = "attempt"
    /\ frame.attempt < MAX_API_RETRIES
    /\ \E d \in RequestTimes :
          IF sleeps_after(frame.attempt)
          THEN /\ now' = now + d + API_RETRY_DELAY
               /\ frame' = [frame EXCEPT !.attempt = @ + 1, !.attempts = @ + 1,
                                         !.sleeps = @ + 1, !.last = "fail"]
          ELSE /\ now' = now + d
               /\ frame' = [frame EXCEPT !.attempt = @ + 1, !.attempts = @ + 1,
                                         !.last = "fail"]
    /\ \/ /\ frame.func = "retry_request"
          /\ IF frame.attempt < MAX_API_RETRIES - 1
             THEN pc' = "attempt" /\ ret' = ret
             ELSE pc' = "raised" /\ ret' = ret
       \/ /\ frame.func # "retry_request"
          /\ IF frame.attempt + 1 < MAX_API_RETRIES
             THEN pc' = "attempt" /\ ret' = ret
             ELSE pc' = "returned" /\ ret' = Some(FALSE)
    /\ UNCHANGED <<settings, state, next_nws_check, sign, ser_open, ticks, ev>>

NextRetry == RetryEnter \/ AttemptSucceeds \/ AttemptFails

SpecRetry == InitRetry /\ [][NextRetry]_vars

\* C21: at most 3 attempts; a call that got a response returns at once, with
\* one delay behind each failed attempt before it; after the third failure
\* retry_request raises and a validator returns False, two delays having
\* been slept and none after the third failure; the session state is as it
\* was before the call
RetryAtMostThreeAttempts ==
    /\ frame.attempts <= 3
    /\ state = InitialState
    /\ now - frame.start_time >= 5 * frame.sleeps
    /\ pc = "attempt" => (frame.sleeps = frame.attempts /\ frame.attempts <= 2)
    /\ (pc = "returned" /\ frame.last = "ok")
         => /\ frame.sleeps = frame.attempts - 1
            /\ ret # None
    /\ (pc \in {"returned", "raised"} /\ frame.last = "fail")
         => /\ frame.attempts = 3
            /\ frame.sleeps = 2
            /\ IF frame.func = "retry_request"
               THEN pc = "raised" /\ ret = None
               ELSE pc = "returned" /\ ret = Some(FALSE)
    /\ pc = "raised" => (frame.func = "retry_request" /\ frame.last = "fail")

\* retry_request raising after its third failed attempt
RetryRaisedWitness ==
    /\ pc = "raised"
    /\ frame.func = "retry_request"
    /\ frame.attempts = 3
    /\ frame.sleeps = 2
    /\ now - frame.start_time = 10

----------------------------------------------------------------------------
(* The coordinating loop: shutdown, transport failures, the display window  *)

\* the branches of an iteration of the loop
TickBranches == {"on", "off", "active", "idle"}

\* C22: no step starts with the shutdown flag set: the step that sets the
\* flag is the last one, it leaves the loop, and it ends with the exit
\* message written, or given up on, or withheld from a closed port
NoCycleAfterShutdown ==
    [][/\ ~state.shutdown
       /\ state'.shutdown
            => /\ pc' = "stopped"
               /\ \/ (ev'.tx # <<>> /\ ev'.tx[Len(ev'.tx)] = ExitMessage)
                  \/ ev'.txfail
                  \/ ev'.port = "lost"]_vars

\* the loop ran, the flag is set and the exit message is on the sign
ShutdownWitness ==
    /\ state.shutdown
    /\ pc = "stopped"
    /\ ticks >= 1
    /\ sign = ExitMessage

\* C23 as stated: an iteration with a failed serial write or a lost serial
\* connection leaves the loop running
TransportFailureNeverFatal ==
    [][(ev'.branch \in TickBranches /\ (ev'.txfail \/ ev'.port = "lost"))
            => pc' = "running"]_vars

\* C23 amended: an iteration leaves the loop exactly when it found the port
\* closed and could not reopen it; a failed write alone leaves it running
WriteFailureNeverFatal ==
    [][ev'.branch \in TickBranches
            => /\ pc' \in {"running", "stopped"}
               /\ pc' = "stopped" <=> ev'.port = "lost"
               /\ ev'.port = "lost" => (state'.shutdown /\ ~ser_open')]_vars

\* the loop running on after an iteration whose send failed
WriteFailureWitness ==
    /\ pc = "running"
    /\ ev.branch = "active"
    /\ ev.txfail
    /\ ev.port = "open"
    /\ ticks >= 2

\* a step of the iteration failed: a feed, the forecast fetch or a send
StepFailed(e) ==
    \/ e.nws \in {"fail", "error"}
    \/ e.nhc = "fail"
    \/ \E i \in 1..Len(e.fc) : e.fc[i] \in {"raised", "unsent"}
    \/ e.txfail

\* C24: the steps of an iteration run whatever the steps before them did:
\* a fresh poll (ON transition, scheduled refresh) polls NWS, polls NHC and
\* calls send_forecast; the loop's NWS poll and NHC poll happen exactly when
\* their schedule says so, the NHC poll being followed by send_forecast;
\* and an iteration with a failed step leaves the loop running (unless the
\* port was found closed and could not be reopened)
StepErrorsAreContained ==
    [][ev'.branch \in TickBranches
         => /\ (ev'.branch = "on" \/ ev'.scheduled)
                 => (ev'.nws # "none" /\ ev'.nhc # "none" /\ ev'.fc # <<>>)
            /\ ev'.loop_poll
                 <=> /\ ev'.branch = "active"
                     /\ now' >= IF ev'.scheduled
                                THEN get_next_nws_check(now', FALSE)
                                ELSE next_nws_check
            /\ ev'.nhc_sched
                 <=> /\ ev'.branch = "active"
                     /\ should_check_nhc(now', state.last_nhc_pull)
            /\ ev'.nhc_sched => ev'.fc # <<>>
            /\ (StepFailed(ev') /\ ev'.port # "lost") => pc' = "running"]_vars

\* an iteration whose NWS poll failed, whose NHC poll went through and whose
\* forecast was sent, the loop running on
StepErrorWitness ==
    /\ pc = "running"
    /\ ev.branch \in TickBranches
    /\ ev.nws = "fail"
    /\ ev.nhc = "ok"
    /\ ev.fc = <<"sent">>

\* C25: once main() is past the configuration (is_display_active has been
\* handed the settings, at startup and then by the loop), ON_TIME and
\* OFF_TIME both parse as 24-hour HH:MM
InvalidTimesNeverReachScheduler ==
    pc \in {"running", "stopped", "crashed"}
        => (time_format(settings.ON_TIME) /\ time_format(settings.OFF_TIME))

----------------------------------------------------------------------------
(* The state lock: the accessor calls and the blocking operations of a      *)
(* fresh poll (check_alerts, check_storms, send_forecast), in the order the *)
(* code makes them.  An accessor is "with self._lock:" around one statement.*)

\* a call of a ThreadSafeState accessor, and the field it reads or writes
Acc(name, field) == [op |-> "accessor", name |-> name, field |-> field]

\* a blocking operation: an HTTP request, a serial write, a sleep
IO(name) == [op |-> "io", name |-> name, field |-> "none"]

\* check_alerts, lines 629-653, by what the request brings
check_alerts_calls(nws) ==
    <<Acc("update_nws_pull", "last_nws_pull"), IO("requests.get")>>
    \o CASE nws = "fail" -> <<>>
         [] nws = "new" -> <<Acc("set_nws_headlines", "nws_active_headlines"),
                             Acc("get_alert_id", "last_alert_id"),
                             Acc("set_alert_id", "last_alert_id")>>
         [] nws = "same" -> <<Acc("set_nws_headlines", "nws_active_headlines"),
                              Acc("get_alert_id", "last_alert_id")>>
         [] nws = "empty" -> <<Acc("set_alert_id", "last_alert_id"),
                               Acc("set_nws_headlines", "nws_active_headlines")>>

\* check_storms, lines 660-684
check_storms_calls(nhc) ==
    <<Acc("update_nhc_pull", "last_nhc_pull"), IO("requests.get")>>
    \o IF nhc = "fail" THEN <<>> ELSE <<Acc("set_nhc_names", "nhc_active_names")>>

\* send_forecast, lines 693-750, with retry_request and send_message
send_forecast_calls(fc) ==
    <<Acc("get_last_forecast_update", "last_forecast_update")>>
    \o CASE fc = "skipped" -> <<>>
         [] fc = "raised" ->
               <<Acc("set_last_forecast_update", "last_forecast_update"),
                 IO("requests.get"), IO("time.sleep"), IO("requests.get"),
                 IO("time.sleep"), IO("requests.get"),
                 Acc("set_last_forecast_update", "last_forecast_update")>>
         [] fc = "sent" ->
               <<Acc("set_last_forecast_update", "last_forecast_update"),
                 IO("requests.get"),
                 Acc("get_nhc_names", "nhc_active_names"),
                 Acc("get_nws_headlines", "nws_active_headlines"),
                 IO("ser.write"), IO("time.sleep")>>
         [] fc = "unsent" ->
               <<Acc("set_last_forecast_update", "last_forecast_update"),
                 IO("requests.get"),
                 Acc("get_nhc_names", "nhc_active_names"),
                 Acc("get_nws_headlines", "nws_active_headlines"),
                 IO("ser.write"), IO("time.sleep"), IO("ser.write")>>

\* do_fresh_poll, lines 943-955
do_fresh_poll_calls(nws, nhc, fc) ==
    check_alerts_calls(nws) \o check_storms_calls(nhc) \o send_forecast_calls(fc)

\* the with block keeping the lock when it ends
with_lock_exit_held(lock) == lock

\* the end of "with self._lock:": the lock is released
with_lock_exit(lock) == FALSE

InitLock ==
    /\ pc = "call"
    /\ settings = DEFAULT_SETTINGS
    /\ now = DatetimeMin
    /\ state = InitialState
    /\ next_nws_check = DatetimeMin
    /\ sign = NoMessage
    /\ ser_open = TRUE
    /\ ticks = 0
    /\ ev = NoEvent("probe")
    /\ ret = None
    /\ \E nws \in {"fail", "new", "same", "empty"}, nhc \in {"fail", "none", "hurricane"},
          fc \in {"skipped", "raised", "sent", "unsent"} :
          frame = [calls |-> do_fresh_poll_calls(nws, nhc, fc), i |-> 1, lock |-> FALSE,
                   last |-> [op |-> "none", name |-> "none", field |-> "none",
                             locked |-> FALSE]]

CurrentCall == frame.calls[frame.i]

\* the accessor enters "with self._lock:"; it waits while the lock is held
AccessorAcquires ==
    /\ pc = "call"
    /\ frame.i <= Len(frame.calls)
    /\ CurrentCall.op = "accessor"
    /\ ~frame.lock
    /\ pc' = "locked"
    /\ frame' = [frame EXCEPT !.lock = TRUE]
    /\ UNCHANGED <<settings, now, state, next_nws_check, sign, ser_open, ticks, ev, ret>>

\* the one statement of the accessor: it reads or writes its field
AccessorTouches ==
    /\ pc = "locked"
    /\ pc' = "touched"
    /\ frame' = [frame EXCEPT !.last = [op |-> "accessor", name |-> CurrentCall.name,
                                        field |-> CurrentCall.field,
                                        locked |-> frame.lock]]
    /\ UNCHANGED <<settings, now, state, next_nws_check, sign, ser_open, ticks, ev, ret>>

\* the accessor leaves the with block and returns
AccessorReleases ==
    /\ pc = "touched"
    /\ pc' = "call"
    /\ frame' = [frame EXCEPT !.lock = with_lock_exit(frame.lock), !.i = @ + 1]
    /\ UNCHANGED <<settings, now, state, next_nws_check, sign, ser_open, ticks, ev, ret>>

\* an HTTP request, a serial write or a sleep, from start to end
BlockingCall ==
    /\ pc = "call"
    /\ frame.i <= Len(frame.calls)
    /\ CurrentCall.op = "io"
    /\ frame' = [frame EXCEPT !.last = [op |-> "io", name |-> CurrentCall.name,
                                        field |-> "none", locked |-> frame.lock],
                              !.i = @ + 1]
    /\ UNCHANGED <<pc, settings, now, state, next_nws_check, sign, ser_open, ticks, ev,
                   ret>>

NextLock == AccessorAcquires \/ AccessorTouches \/ AccessorReleases \/ BlockingCall

SpecLock == InitLock /\ [][NextLock]_vars

\* the data fields of ThreadSafeState
StateFields ==
    {"last_forecast_update", "last_alert_id", "last_nws_pull", "last_nhc_pull",
     "nhc_active_names", "nws_active_headlines", "display_was_active",
     "last_forecast_hour"}

\* C26: a field is read or written only with the lock held, by an accessor
\* that took it just before and gives it back just after; the lock is free
\* whenever a request, a serial write or a sleep runs, and between calls,
\* so no accessor waits
LockHeldOnlyAroundField ==
    /\ frame.last.op = "accessor"
         => (frame.last.locked /\ frame.last.field \in StateFields)
    /\ frame.last.op = "io" => ~frame.last.locked
    /\ frame.lock <=> pc \in {"locked", "touched"}
    /\ (pc = "call" /\ frame.i <= Len(frame.calls) /\ CurrentCall.op = "accessor")
         => ~frame.lock

\* send_forecast about to write to the sign, the lock free, after it read
\* the headlines under the lock
LockWitness ==
    /\ pc = "call"
    /\ frame.i <= Len(frame.calls)
    /\ CurrentCall = IO("ser.write")
    /\ frame.last.name = "get_nws_headlines"
    /\ frame.last.locked
    /\ ~frame.lock

----------------------------------------------------------------------------
(* get_next_nws_check with no alert active, over the minutes of three hours *)

NwsCheckTimes ==
    {At(1, h, m, s) : h \in {0, 9, 23}, m \in 0..59, s \in {0, 1, 59}}

InitNwsCheck ==
    /\ pc = "probe"
    /\ settings = DEFAULT_SETTINGS
    /\ now \in NwsCheckTimes
    /\ state = InitialState
    /\ next_nws_check = DatetimeMin
    /\ sign = NoMessage
    /\ ser_open = FALSE
    /\ ticks = 0
    /\ ev = NoEvent("probe")
    /\ ret = None
    /\ frame = None

EvalNwsCheck ==
    /\ pc = "probe"
    /\ pc' = "probed"
    /\ next_nws_check' = get_next_nws_check(now, FALSE)
    /\ UNCHANGED <<settings, now, state, sign, ser_open, ticks, ev, ret, frame>>

SpecNwsCheck == InitNwsCheck /\ [][EvalNwsCheck]_vars

\* C27 as stated: with no alert the result is the nearest 5-minute mark
\* at or after now, and :00 of the next hour when now is past the :55 mark
NextCheckIsNearestMarkAtOrAfter ==
    pc = "probed" =>
        /\ IsGridMark(next_nws_check)
        /\ next_nws_check >= now
        /\ \A t \in now..(next_nws_check - 1) : ~IsGridMark(t)
        /\ now > replace_minute(now, 55) => next_nws_check = replace_minute(now, 0) + Hour

\* C27 amended: with no alert the result is the nearest 5-minute mark
\* strictly after now, so at an exact mark it is the mark five minutes
\* later, and :00 of the next hour when now is at or past the :55 mark
NextCheckIsNearestMarkAfter ==
    pc = "probed" =>
        /\ IsGridMark(next_nws_check)
        /\ next_nws_check > now
        /\ \A t \in (now + 1)..(next_nws_check - 1) : ~IsGridMark(t)
        /\ now >= replace_minute(now, 55) => next_nws_check = replace_minute(now, 0) + Hour
        /\ IsGridMark(now) => next_nws_check = now + 5 * 60

\* the function applied at 23:55:00 exactly: the result is 00:00 of the
\* next day
NextCheckAtMarkWitness ==
    /\ pc = "probed"
    /\ now = At(1, 23, 55, 0)
    /\ next_nws_check = At(2, 0, 0, 0)

----------------------------------------------------------------------------
\* C28: an iteration of the loop at an instant outside the display window
\* polls neither NWS nor NHC and calls no send_forecast; it writes nothing
\* to the sign but, when the display was ON before it, the one blank
\* message of the ON-to-OFF transition
NoPollsWhileDisplayOff ==
    [][(ev'.branch \in TickBranches /\ ~is_display_active(settings', now'))
          => /\ ev'.nws = "none"
             /\ ev'.nhc = "none"
             /\ ev'.fc = <<>>
             /\ ~ev'.scheduled
             /\ state'.last_nws_pull = state.last_nws_pull
             /\ state'.last_nhc_pull = state.last_nhc_pull
             /\ state'.last_forecast_update = state.last_forecast_update
             /\ Len(ev'.tx) <= 1
             /\ ev'.tx # <<>>
                   => /\ ev'.tx = <<BlankMessage>>
                      /\ state.display_was_active = Some(TRUE)
                      /\ state'.display_was_active = Some(FALSE)
      ]_vars

\* the display has just turned OFF with polls made earlier in the run: the
\* blank message was written and is on the sign
DisplayOffWitness ==
    /\ ev.branch = "off"
    /\ ~is_display_active(settings, now)
    /\ ev.tx = <<BlankMessage>>
    /\ sign = BlankMessage
    /\ state.last_nws_pull # DatetimeMin

\* an iteration with the display OFF before and after: nothing is written
DisplayIdleWitness ==
    /\ ev.branch = "idle"
    /\ ~is_display_active(settings, now)
    /\ ev.tx = <<>>
    /\ state.display_was_active = Some(FALSE)

----------------------------------------------------------------------------
(* send_forecast called several times in a row, at chosen distances in     *)
(* time, the forecast API and the serial port answering as they like       *)

MaxCalls == 3

\* seconds between two calls: around the 300 s of the duplicate guard
CallDeltas == {0, 1, 299, 300, 301}

InitForecast ==
    /\ pc = "call"
    /\ settings = DEFAULT_SETTINGS
    /\ now = At(1, 9, 0, 0)
    /\ \E nws \in {<<>>, <<"Flood Warning">>} :
          state = [InitialState EXCEPT !.nws_active_headlines = nws,
                                       !.display_was_active = Some(TRUE)]
    /\ next_nws_check = DatetimeMin
    /\ sign = NoMessage
    /\ ser_open = TRUE
    /\ ticks = 0
    /\ ev = NoEvent("probe")
    /\ ret = None
    /\ frame = None

CallSendForecast ==
    /\ pc = "call"
    /\ ticks < MaxCalls
    /\ \E d \in CallDeltas, api \in ApiOutcomes, ser \in SerialOutcomes :
          LET t == now + d
              w == send_forecast(World("probe"), ser_open, t, api, ser)
          IN /\ now' = t
             /\ state' = w.state
             /\ sign' = w.sign
             /\ ev' = w.ev
    /\ ticks' = ticks + 1
    /\ UNCHANGED <<pc, settings, next_nws_check, ser_open, ret, frame>>

SpecForecast == InitForecast /\ [][CallSendForecast]_vars

\* C29: a send_forecast call less than 300 s after the recorded last
\* update returns at once: nothing is fetched, nothing is written to the
\* sign, and the session state is what it was
DuplicateCallChangesNothing ==
    [][(ticks' = ticks + 1
        /\ state.last_forecast_update # None
        /\ now' - state.last_forecast_update[1] < DuplicateWindow)
          => /\ ev'.fc = <<"skipped">>
             /\ ev'.tx = <<>>
             /\ ~ev'.txfail
             /\ sign' = sign
             /\ state' = state
      ]_vars

\* a call 299 s after an update was recorded: skipped
DuplicateCallWitness ==
    /\ ev.fc = <<"skipped">>
    /\ state.last_forecast_update # None
    /\ now - state.last_forecast_update[1] = 299

\* C30 as stated: after send_forecast returns, last_forecast_update is the
\* call's now only if the forecast was written to the sign by that call,
\* and a call is skipped as a duplicate only of a forecast that is on the
\* sign
UpdateRecordedOnlyWhenDelivered ==
    /\ (ev.fc # <<>> /\ ev.fc # <<"skipped">> /\ state.last_forecast_update = Some(now))
         => (ev.fc = <<"sent">> /\ ev.tx = <<ForecastMessage(state)>>)
    /\ ev.fc = <<"skipped">> => sign.kind = "forecast"

----------------------------------------------------------------------------
\* C31: a scheduled refresh that fires and sets last_forecast_hour to the
\* anchor hour writes a forecast message to the sign in the same iteration
\* (the forecast API answering and the port taking the write), also when
\* the fresh poll of the startup or of an ON transition was made less than
\* 5 minutes before the anchor hour
ScheduledRefreshTransmits ==
    [][(/\ ev'.scheduled
        /\ state'.last_forecast_hour = Some(hour(now'))
        /\ \A i \in 1..Len(ev'.fc) : ev'.fc[i] \notin {"raised", "unsent"})
          => \E i \in 1..Len(ev'.tx) : ev'.tx[i].kind = "forecast"
      ]_vars

----------------------------------------------------------------------------
(* How long an iteration of the loop may take: the loop is one thread, and  *)
(* the next iteration reads datetime.now() after the calls of this one and  *)
(* the sleep of one second                                                  *)

\* requests.get(..., timeout=10) of the feeds and of the forecast APIs
REQUEST_TIMEOUT == 10

\* the longest time the calls recorded in the events e and the sleep take
iteration_time_limit(e) ==
    LET fetches == Cardinality({i \in 1..Len(e.fc) : e.fc[i] # "skipped"})
        writes == Len(e.tx) + (IF e.txfail THEN 1 ELSE 0)
    IN 1 + (IF e.nws # "none" THEN REQUEST_TIMEOUT ELSE 0)
         + (IF e.nhc # "none" THEN REQUEST_TIMEOUT ELSE 0)
         + fetches * (MAX_API_RETRIES * REQUEST_TIMEOUT
                        + (MAX_API_RETRIES - 1) * API_RETRY_DELAY)
         + writes * MAX_SEND_RETRY_TIME

\* C32: an anchor hour that begins while the loop runs with the display
\* active gets its scheduled refresh, whatever time the polls and the
\* bounded sends of the iteration before took: the refresh fires in the
\* first iteration at or after the anchor instant, the only one that can
\* fire it, since a later iteration reads a later clock
AnchorHourRefreshed ==
    [][(/\ pc = "running" /\ pc' = "running"
        /\ ev.branch \in TickBranches
        /\ state.display_was_active = Some(TRUE)
        /\ ev'.branch = "active"
        /\ now' - now <= iteration_time_limit(ev))
          => \A a \in AnchorInstants :
                (now < a /\ a <= now' /\ is_display_active(settings, a))
                   => (ev'.scheduled /\ anchor(now') = anchor(a))
      ]_vars

====
